---------------------------- MODULE Spec2Model ----------------------------
(***************************************************************************)
(* Fibonacci heap with unsigned keys (FibonacciHeap_uint64-keys.c).        *)
(*                                                                         *)
(* The heap is a record of the fields of FibHeap and, per node slot, of    *)
(* the fields of FibTreeNode.  Node pointers are slot numbers, NULL is 0.  *)
(* A forest bucket is the sequence of its records, first to last; a record *)
(* is named by the node its FibTree was created for (FibTree._root is      *)
(* written once, when the tree is created), so _posInForest[n] is either   *)
(* NULL or the record created for n.  Every C function is an operator from *)
(* a heap record to a heap record; the record also carries the value the   *)
(* call returned (ret) and whether the call dereferenced a null pointer    *)
(* (fault), after which the process is gone and nothing else runs.        *)
(* newHeap is the pointer createFibHeap returned: NULL when it failed, and *)
(* then there are no buckets and every call is made on a NULL heap.        *)
(***************************************************************************)
EXTENDS Integers, Sequences, FiniteSets, TLC

\* ------------------------------------------------------------------ bounds
\* At most this many nodes are in the heap at once in the free exploration.
MaxNodes == 5
\* Width of a key in bits (uint64_t in the source, scaled down).
KeyBits == 1
\* Largest initial capacity handed to createFibHeap.
MaxInitOrd == 1
\* Number of public calls made on one heap in the free exploration.
MaxCalls == 8
\* The grown heap: this many nodes are inserted before its first fhDeleteMin.
MaxGrownNodes == 9
\* Number of public calls made on the grown heap.
MaxGrownCalls == 3
\* At most this many of the grown heap's keys are 0 (the others are the
\* largest key), so that its nodes can be cut.
MaxGrownZeros == 2
\* Largest capacity handed to createFibHeap when its allocations may fail.
MaxAllocOrd == 6

NULL == 0
\* ULONG_MAX of <limits.h>, the largest nodesCount: beyond every bound here.
ULONG_MAX == 2147483647
\* Node slots: as many as the larger heap needs.
MaxSlots == IF MaxNodes > MaxGrownNodes THEN MaxNodes ELSE MaxGrownNodes
Nodes == 1..MaxSlots
\* 2^KeyBits: keys are unsigned and wrap modulo this.
KeyMod == 2 ^ KeyBits
UINT64_MAX == KeyMod - 1
Keys == 0..UINT64_MAX

VARIABLES
    initMaxTreeOrd, \* the capacity createFibHeap was called with
    newHeap,        \* the FibHeap pointer it returned (NULL: it failed)
    key,            \* FibTreeNode.key
    elem,           \* FibTreeNode.elem
    _father,        \* FibTreeNode._father
    _firstSon,      \* FibTreeNode._firstSon
    _nextBro,       \* FibTreeNode._nextBro
    _prevBro,       \* FibTreeNode._prevBro
    _posInForest,   \* FibTreeNode._posInForest
    _sonsCnt,       \* FibTreeNode._sonsCnt
    _grief,         \* FibTreeNode._grief
    _forest,        \* FibHeap._forest
    min,            \* FibHeap.min
    _maxTreeOrd,    \* FibHeap._maxTreeOrd
    nodesCount,     \* FibHeap.nodesCount
    op,             \* the public function called last ("create" at first)
    ret,            \* the node it returned, for fhFindMin the element
                    \* (NULL: none)
    retKey,         \* the key ret carried when it was returned
    fault,          \* the last call dereferenced a null pointer
    cuts,           \* how often the last call ran _cascadedDetach
    calls,          \* how many public calls were made so far
    phase,          \* driver: "free"; heapsort "fill", "drain", "done";
                    \* grown heap "grow", "grown";
                    \* construction step by step "create"
    input,          \* heapsort driver: keys inserted, in order
    output,         \* heapsort driver: keys returned by fhDeleteMin, in order
    pc,             \* createFibHeap: the statement it runs next
    treeList,       \* createFibHeap: its local treeList (NULL: calloc failed)
    loopI,          \* createFibHeap: its loop counter i
    loopJ,          \* createFibHeap: its loop counter j
    allocated       \* the blocks createFibHeap allocated and has not freed

nodeVars == <<key, elem, _father, _firstSon, _nextBro, _prevBro, _posInForest,
              _sonsCnt, _grief>>
heapVars == <<newHeap, _forest, min, _maxTreeOrd, nodesCount>>
callVars == <<initMaxTreeOrd, op, ret, retKey, fault, cuts, calls>>
sortVars == <<phase, input, output>>
allocVars == <<pc, treeList, loopI, loopJ, allocated>>
vars == <<nodeVars, heapVars, callVars, sortVars, allocVars>>

\* The program state as one record, as a call finds it.
H ==
    [newHeap |-> newHeap, key |-> key, elem |-> elem, _father |-> _father, _firstSon |-> _firstSon,
     _nextBro |-> _nextBro, _prevBro |-> _prevBro,
     _posInForest |-> _posInForest, _sonsCnt |-> _sonsCnt, _grief |-> _grief,
     _forest |-> _forest, min |-> min, _maxTreeOrd |-> _maxTreeOrd,
     nodesCount |-> nodesCount, ret |-> ret, fault |-> fault, cuts |-> 0]

\* The state after a call that left record h.
SetHeap(h) ==
    /\ newHeap' = h.newHeap
    /\ key' = h.key
    /\ elem' = h.elem
    /\ _father' = h._father
    /\ _firstSon' = h._firstSon
    /\ _nextBro' = h._nextBro
    /\ _prevBro' = h._prevBro
    /\ _posInForest' = h._posInForest
    /\ _sonsCnt' = h._sonsCnt
    /\ _grief' = h._grief
    /\ _forest' = h._forest
    /\ min' = h.min
    /\ _maxTreeOrd' = h._maxTreeOrd
    /\ nodesCount' = h.nodesCount
    /\ ret' = h.ret
    /\ fault' = h.fault
    /\ cuts' = h.cuts

\* --------------------------------------------------- double linked lists
\* The list library's operations on one bucket, as the heap uses them.
createDLList == << >>

isListEmpty(list) == Len(list) = 0

recsCount(list) == Len(list)

addAsLast(rec, list) == Append(list, rec)

addAsLastRecord(rec, list) == Append(list, rec)

popRecord(rec, list) == SelectSeq(list, LAMBDA r : r # rec)

\* popFirstRecord and popLastRecord hand back a record and shorten the list:
\* the record handed back, and the list left.
firstRecord(list) == Head(list)

lastRecord(list) == list[Len(list)]

popFirstRecord(list) == Tail(list)

popLastRecord(list) == SubSeq(list, 1, Len(list) - 1)

\* Bucket i of the forest (the C array is 0-based).
Bucket(h, i) == h._forest[i + 1]

SetBucket(h, i, list) == [h EXCEPT !._forest[i + 1] = list]

\* e's value handed to F, e being evaluated exactly once (a C function reads
\* its arguments once, however often its body uses them).
Strict(e, F(_)) == CHOOSE r \in {F(x) : x \in {e}} : TRUE

\* ----------------------------------------------------------- heap queries
\* isHeapEmpty: -1 on a NULL heap, 1 when no bucket holds a record, else 0.
isHeapEmpty(h) ==
    IF h.newHeap = NULL THEN -1
    ELSE IF \A i \in 0..(h._maxTreeOrd - 1) : isListEmpty(Bucket(h, i))
         THEN 1 ELSE 0

\* The records of buckets i, i+1, ..., in the order _updateMin's scan visits.
RECURSIVE RecordsFrom(_, _)
RecordsFrom(h, i) ==
    IF i >= h._maxTreeOrd THEN << >>
    ELSE Bucket(h, i) \o RecordsFrom(h, i + 1)

\* The slow scan of _updateMin from record k of recs on: a root replaces the
\* candidate only when its key is strictly below newMinKey.
RECURSIVE ScanMin(_, _, _, _, _)
ScanMin(h, recs, k, newMin, newMinKey) ==
    IF k > Len(recs) THEN newMin
    ELSE IF h.key[recs[k]] < newMinKey
         THEN ScanMin(h, recs, k + 1, recs[k], h.key[recs[k]])
         ELSE ScanMin(h, recs, k + 1, newMin, newMinKey)

\* _updateMin's slow mode starts from no candidate and the largest key.
SlowMin(h) ==
    Strict(RecordsFrom(h, 0),
           LAMBDA recs : ScanMin(h, recs, 1, NULL, UINT64_MAX))

\* _updateMin's fast mode: the test that moves min to newNode.
FastMinMoves(h, newNode) ==
    (h.min = NULL) \/ (h.key[newNode] < h.key[h.min])

_updateMin(heap, newNode) ==
    Strict(heap, LAMBDA h :
        IF isHeapEmpty(h) # 0 THEN [h EXCEPT !.min = NULL]
        ELSE IF newNode = NULL THEN [h EXCEPT !.min = SlowMin(h)]
        ELSE IF FastMinMoves(h, newNode) THEN [h EXCEPT !.min = newNode]
        ELSE h)

\* fhFindMin: the element of the cached minimum, 0 when there is no heap or
\* no minimum.
fhFindMin(h) ==
    IF h.newHeap = NULL THEN 0
    ELSE IF h.min = NULL THEN 0
    ELSE h.elem[h.min]

\* ---------------------------------------------------------------- insert
\* The tail of _insertNode: nodesCount++ and the node returned.
CountInserted(heap, node) ==
    Strict(heap, LAMBDA h :
        [h EXCEPT !.nodesCount = h.nodesCount + 1, !.ret = node])

\* _insertNode: a new B0 tree for node, filed last in bucket 0.
_insertNode(heap, node) ==
    Strict(heap, LAMBDA h :
        CountInserted(
            _updateMin([SetBucket(h, 0, addAsLast(node, Bucket(h, 0)))
                          EXCEPT !._posInForest[node] = node], node),
            node))

\* fhInsert: a zeroed node with the given key and element, then _insertNode.
\* node is the block calloc returned.
fhInsert(heap, node, e, k) ==
    Strict(heap, LAMBDA h :
        IF h.newHeap = NULL THEN [h EXCEPT !.ret = NULL]
        ELSE IF h.nodesCount = ULONG_MAX THEN [h EXCEPT !.ret = NULL]
        ELSE _insertNode([h EXCEPT !.key[node] = k,
                                   !.elem[node] = e,
                                   !._father[node] = NULL,
                                   !._firstSon[node] = NULL,
                                   !._nextBro[node] = NULL,
                                   !._prevBro[node] = NULL,
                                   !._posInForest[node] = NULL,
                                   !._sonsCnt[node] = 0,
                                   !._grief[node] = 0], node))

\* ---------------------------------------------------------- cascading cut
\* The first half of _cascadedDetach: decNode leaves its father's child list
\* and the father's _sonsCnt drops by one.
Unlink(h, decNode) ==
    LET father == h._father[decNode]
        next == h._nextBro[decNode]
        prev == h._prevBro[decNode]
    IN  [h EXCEPT
           !._firstSon[father] =
               IF h._firstSon[father] = decNode THEN next ELSE @,
           !._nextBro = [n \in Nodes |->
               IF n = decNode THEN NULL
               ELSE IF n = prev THEN next ELSE h._nextBro[n]],
           !._prevBro = [n \in Nodes |->
               IF n = decNode THEN NULL
               ELSE IF n = next THEN prev ELSE h._prevBro[n]],
           !._father[decNode] = NULL,
           !._sonsCnt[father] = h._sonsCnt[father] - 1]

\* The second half: decNode is filed last in the bucket of its own _sonsCnt,
\* gets its record and loses its mark.
FileAsRoot(h, decNode) ==
    [SetBucket(h, h._sonsCnt[decNode],
               addAsLast(decNode, Bucket(h, h._sonsCnt[decNode])))
       EXCEPT !._posInForest[decNode] = decNode,
              !._grief[decNode] = 0,
              !.cuts = h.cuts + 1]

\* A father that is a root and lost a son: its record is taken out of the
\* bucket of its old _sonsCnt and put last in the bucket one below.
MoveDown(h, father) ==
    LET rec == h._posInForest[father]
        cnt == h._sonsCnt[father]
    IN  Strict(SetBucket(h, cnt + 1, popRecord(rec, Bucket(h, cnt + 1))),
               LAMBDA h7 :
                 SetBucket(h7, cnt, addAsLastRecord(rec, Bucket(h7, cnt))))

\* _cascadedDetach that marks a father that is no root and never cuts it.
_cascadedDetach_NoCascade(heap, decNode) ==
    Strict(heap, LAMBDA h0 :
      Strict(FileAsRoot(Unlink(h0, decNode), decNode), LAMBDA h :
        LET father == h0._father[decNode]
        IN  IF h._father[father] # NULL
            THEN [h EXCEPT !._grief[father] = 1]
            ELSE MoveDown(h, father)))

\* _cascadedDetach: cut decNode from its father, file it as a root, then
\* look at the father: a root is moved one bucket down, a marked non-root is
\* cut in turn, an unmarked non-root is marked.
RECURSIVE _cascadedDetach(_, _)
_cascadedDetach(heap, decNode) ==
    Strict(heap, LAMBDA h0 :
      Strict(FileAsRoot(Unlink(h0, decNode), decNode), LAMBDA h :
        LET father == h0._father[decNode]
        IN  IF h._father[father] # NULL
            THEN IF h._grief[father] = 1 THEN _cascadedDetach(h, father)
                 ELSE [h EXCEPT !._grief[father] = 1]
            ELSE MoveDown(h, father)))

\* fhDecreaseKey with a subtraction that stops at 0 instead of wrapping.
fhDecreaseKey_Saturating(heap, node, dec) ==
    IF (heap.newHeap = NULL) \/ (node = NULL) THEN [heap EXCEPT !.ret = NULL]
    ELSE
    Strict([heap EXCEPT !.key[node] = IF dec > @ THEN 0 ELSE @ - dec],
           LAMBDA h1 :
      Strict(IF (h1._father[node] # NULL)
                /\ (h1.key[node] < h1.key[h1._father[node]])
             THEN _cascadedDetach(h1, node) ELSE h1, LAMBDA h2 :
        Strict(IF h2._father[node] = NULL THEN _updateMin(h2, node) ELSE h2,
               LAMBDA h3 : [h3 EXCEPT !.ret = node])))

\* fhDecreaseKey: key -= dec in unsigned arithmetic; a non-root that fell
\* below its father is cut; a root is offered to the fast min update.
fhDecreaseKey(heap, node, dec) ==
    IF (heap.newHeap = NULL) \/ (node = NULL) THEN [heap EXCEPT !.ret = NULL]
    ELSE
    Strict([heap EXCEPT !.key[node] = (@ - dec) % KeyMod], LAMBDA h1 :
      Strict(IF (h1._father[node] # NULL)
                /\ (h1.key[node] < h1.key[h1._father[node]])
             THEN _cascadedDetach(h1, node) ELSE h1, LAMBDA h2 :
        Strict(IF h2._father[node] = NULL THEN _updateMin(h2, node) ELSE h2,
               LAMBDA h3 : [h3 EXCEPT !.ret = node])))

\* ----------------------------------------------------------- consolidation
\* MakeSon without the winner's _sonsCnt++.
MakeSon_NoCount(h, winner, loser) ==
    LET old == h._firstSon[winner]
    IN  [h EXCEPT !._father[loser] = winner,
                  !._nextBro[loser] = old,
                  !._prevBro = [n \in Nodes |->
                      IF n = loser THEN NULL
                      ELSE IF n = old THEN loser ELSE h._prevBro[n]],
                  !._posInForest[loser] = NULL,
                  !._firstSon[winner] = loser]

\* One branch of _mergeRecordedTrees: loser becomes the first son of winner.
MakeSon(h, winner, loser) ==
    LET old == h._firstSon[winner]
    IN  [h EXCEPT !._father[loser] = winner,
                  !._nextBro[loser] = old,
                  !._prevBro = [n \in Nodes |->
                      IF n = loser THEN NULL
                      ELSE IF n = old THEN loser ELSE h._prevBro[n]],
                  !._posInForest[loser] = NULL,
                  !._sonsCnt[winner] = h._sonsCnt[winner] + 1,
                  !._firstSon[winner] = loser]

\* _mergeRecordedTrees comparing with < : on equal keys otherRoot is on top.
_mergeRecordedTrees_TieToOther(h, thisRoot, otherRoot) ==
    IF h.key[thisRoot] < h.key[otherRoot]
    THEN [heap |-> MakeSon(h, thisRoot, otherRoot), rec |-> thisRoot]
    ELSE [heap |-> MakeSon(h, otherRoot, thisRoot), rec |-> otherRoot]

\* _mergeRecordedTrees: the root with the larger key goes under the other;
\* on equal keys thisRoot stays on top.  The heap after, and the record kept.
_mergeRecordedTrees(h, thisRoot, otherRoot) ==
    IF h.key[thisRoot] <= h.key[otherRoot]
    THEN [heap |-> MakeSon(h, thisRoot, otherRoot), rec |-> thisRoot]
    ELSE [heap |-> MakeSon(h, otherRoot, thisRoot), rec |-> otherRoot]

\* Extend without the _maxTreeOrd++.
Extend_NoCount(h, i) ==
    IF (i + 1) >= h._maxTreeOrd
    THEN [h EXCEPT !._forest = Append(h._forest, createDLList)]
    ELSE h

\* _rebuild's test before filing into bucket i + 1: a bucket is added when
\* there is none.
Extend(h, i) ==
    IF (i + 1) >= h._maxTreeOrd
    THEN [h EXCEPT !._forest = Append(h._forest, createDLList),
                   !._maxTreeOrd = h._maxTreeOrd + 1]
    ELSE h

\* The body of _rebuild's while loop for bucket i: merge its first and last
\* trees and file the result in bucket i + 1.
MergeStep(h, i) ==
    LET a == firstRecord(Bucket(h, i))
        b == lastRecord(popFirstRecord(Bucket(h, i)))
        rest == popLastRecord(popFirstRecord(Bucket(h, i)))
    IN  Strict(_mergeRecordedTrees(SetBucket(h, i, rest), a, b), LAMBDA m :
          Strict(Extend(m.heap, i), LAMBDA h3 :
            SetBucket(h3, i + 1, addAsLastRecord(m.rec, Bucket(h3, i + 1)))))

\* RebuildFrom leaving a bucket once it holds two trees (recsCount > 2).
RECURSIVE RebuildFrom_LeavesTwo(_, _)
RebuildFrom_LeavesTwo(heap, i) ==
    Strict(heap, LAMBDA h :
        IF i >= h._maxTreeOrd THEN h
        ELSE IF recsCount(Bucket(h, i)) > 2
             THEN RebuildFrom_LeavesTwo(MergeStep(h, i), i)
             ELSE RebuildFrom_LeavesTwo(h, i + 1))

\* _rebuild's for loop from bucket i on.
RECURSIVE RebuildFrom(_, _)
RebuildFrom(heap, i) ==
    Strict(heap, LAMBDA h :
        IF i >= h._maxTreeOrd THEN h
        ELSE IF recsCount(Bucket(h, i)) > 1
             THEN RebuildFrom(MergeStep(h, i), i)
             ELSE RebuildFrom(h, i + 1))

_rebuild(h) == _updateMin(RebuildFrom(h, 0), NULL)

\* ------------------------------------------------------------- delete-min
\* _cutSubtrees from son currSon on: every son of the root loses its father.
RECURSIVE CutFrom(_, _)
CutFrom(heap, currSon) ==
    Strict(heap, LAMBDA h :
        IF currSon = NULL THEN h
        ELSE CutFrom([h EXCEPT !._father[currSon] = NULL],
                     h._nextBro[currSon]))

_cutSubtrees(heap, root) ==
    Strict(heap, LAMBDA h : CutFrom(h, h._firstSon[root]))

\* fhDeleteMin's loop over the sons of the removed node: each is unlinked
\* from its brothers and filed last in the bucket of its own _sonsCnt.
RECURSIVE RefileSons(_, _)
RefileSons(heap, newRoot) ==
    Strict(heap, LAMBDA h :
        IF newRoot = NULL THEN h
        ELSE RefileSons(
                [SetBucket(h, h._sonsCnt[newRoot],
                           addAsLast(newRoot, Bucket(h, h._sonsCnt[newRoot])))
                   EXCEPT !._nextBro[newRoot] = NULL,
                          !._prevBro[newRoot] = NULL,
                          !._posInForest[newRoot] = newRoot],
                h._nextBro[newRoot]))

\* The fields fhDeleteMin clears on the node it returns.
ResetNode(h, minNode) ==
    [h EXCEPT !._father[minNode] = NULL,
              !._firstSon[minNode] = NULL,
              !._nextBro[minNode] = NULL,
              !._prevBro[minNode] = NULL,
              !._posInForest[minNode] = NULL,
              !._grief[minNode] = 0,
              !._sonsCnt[minNode] = 0]

\* CountDeleted without the nodesCount--.
CountDeleted_NoDecrement(heap, minNode) ==
    Strict(heap, LAMBDA h : [ResetNode(h, minNode) EXCEPT !.ret = minNode])

\* The tail of fhDeleteMin: nodesCount--, the node's fields cleared, the node
\* returned.
CountDeleted(heap, minNode) ==
    Strict(heap, LAMBDA h :
        [ResetNode(h, minNode) EXCEPT !.nodesCount = h.nodesCount - 1,
                                      !.ret = minNode])

\* fhDeleteMin up to its call of _rebuild: the record of min's tree is taken
\* out of its bucket, the sons lose their father and are filed as roots.
Uprooted(heap) ==
    Strict(heap, LAMBDA h :
        Strict(_cutSubtrees(
                 SetBucket(h, h._sonsCnt[h.min],
                           popRecord(h._posInForest[h.min],
                                     Bucket(h, h._sonsCnt[h.min]))),
                 h.min),
               LAMBDA h2 : RefileSons(h2, h2._firstSon[h.min])))

\* fhDeleteMin without the isHeapEmpty test.
fhDeleteMin_NoEmptyTest(heap) ==
    Strict(heap, LAMBDA h :
        IF h.newHeap = NULL THEN [h EXCEPT !.ret = NULL]
        ELSE IF h.min = NULL THEN [h EXCEPT !.ret = NULL, !.fault = TRUE]
        ELSE CountDeleted(_rebuild(Uprooted(h)), h.min))

\* fhDeleteMin.  On a heap that is not empty it reads heap->min->_posInForest
\* without testing heap->min: a null min is a null dereference.
fhDeleteMin(heap) ==
    Strict(heap, LAMBDA h :
        IF h.newHeap = NULL THEN [h EXCEPT !.ret = NULL]
        ELSE IF isHeapEmpty(h) # 0 THEN [h EXCEPT !.ret = NULL]
        ELSE IF h.min = NULL THEN [h EXCEPT !.ret = NULL, !.fault = TRUE]
        ELSE CountDeleted(_rebuild(Uprooted(h)), h.min))

\* The end of fhDelete: the saved key is written into whatever fhDeleteMin
\* returned (a write through a null pointer when it returned none).
RestoreKey(heap, k) ==
    Strict(heap, LAMBDA h :
        IF h.fault THEN h
        ELSE IF h.ret = NULL THEN [h EXCEPT !.fault = TRUE]
        ELSE [h EXCEPT !.key[h.ret] = k])

\* fhDelete: decrease the node's key by its own value, delete the minimum
\* and restore the saved key.
fhDelete(heap, node) ==
    Strict(heap, LAMBDA h :
        IF (h.newHeap = NULL) \/ (node = NULL) THEN [h EXCEPT !.ret = NULL]
        ELSE RestoreKey(fhDeleteMin(fhDecreaseKey(h, node, h.key[node])),
                        h.key[node]))

\* The end of fhIncreaseKey: key += inc in unsigned arithmetic on the node
\* fhDelete returned, and _insertNode of that node.
Reinsert(heap, inc) ==
    Strict(heap, LAMBDA h :
        IF h.fault THEN h
        ELSE _insertNode([h EXCEPT !.key[h.ret] = (@ + inc) % KeyMod], h.ret))

fhIncreaseKey(heap, node, inc) ==
    IF (heap.newHeap = NULL) \/ (node = NULL) THEN [heap EXCEPT !.ret = NULL]
    ELSE Reinsert(fhDelete(heap, node), inc)

\* eraseFibTreeNode: the caller frees a node it was handed back; the slot is
\* blank until calloc hands it out again.
eraseFibTreeNode(h, node) ==
    IF node = NULL THEN h
    ELSE [ResetNode(h, node) EXCEPT !.key[node] = 0, !.elem[node] = 0]

\* ------------------------------------------------------------ live nodes
\* The brothers from c on, following _nextBro (at most fuel of them).
RECURSIVE BroChain(_, _, _)
BroChain(h, c, fuel) ==
    IF c = NULL \/ fuel = 0 THEN << >>
    ELSE <<c>> \o BroChain(h, h._nextBro[c], fuel - 1)

\* The child list of n: _firstSon, then _nextBro.
Sons(h, n) == BroChain(h, h._firstSon[n], MaxSlots)

SonSet(h, n) == {Sons(h, n)[k] : k \in 1..Len(Sons(h, n))}

\* n and everything below it, to depth fuel.
RECURSIVE Below(_, _, _)
Below(h, n, fuel) ==
    IF fuel = 0 THEN {n}
    ELSE {n} \cup UNION {Below(h, c, fuel - 1) : c \in SonSet(h, n)}

\* The roots on record in the forest.
Roots(h) ==
    UNION {{Bucket(h, i)[k] : k \in 1..Len(Bucket(h, i))} :
             i \in 0..(h._maxTreeOrd - 1)}

\* The nodes in the heap: what eraseFibHeap would walk.
Live(h) == UNION {Below(h, r, MaxSlots) : r \in Roots(h)}

\* The block calloc hands to fhInsert: a slot holding no node of the heap
\* (the lowest such; which one it is makes no difference to the heap).
FreeSlots(h) == Nodes \ Live(h)

NewBlock(h) == CHOOSE n \in FreeSlots(h) : \A m \in FreeSlots(h) : n <= m

\* ------------------------------------------------------------ construction
\* createFibHeap: NULL for no buckets at all, else a heap of ord empty
\* buckets, no minimum, no nodes.  (Without a heap there are no fields: they
\* are blank here.)
createFibHeap(ord) ==
    [newHeap |-> IF ord = 0 THEN NULL ELSE 1,
     key |-> [n \in Nodes |-> 0],
     elem |-> [n \in Nodes |-> 0],
     _father |-> [n \in Nodes |-> NULL],
     _firstSon |-> [n \in Nodes |-> NULL],
     _nextBro |-> [n \in Nodes |-> NULL],
     _prevBro |-> [n \in Nodes |-> NULL],
     _posInForest |-> [n \in Nodes |-> NULL],
     _sonsCnt |-> [n \in Nodes |-> 0],
     _grief |-> [n \in Nodes |-> 0],
     _forest |-> [i \in 1..ord |-> createDLList],
     min |-> NULL,
     _maxTreeOrd |-> ord,
     nodesCount |-> 0,
     ret |-> NULL,
     fault |-> FALSE,
     cuts |-> 0]

\* The blocks createFibHeap allocates: the FibHeap record, the array of
\* bucket pointers, and one list per bucket (createDLList, entry k of the
\* array, which createFibHeap gives back with one free).
HeapBlock == <<"FibHeap", 0>>

ArrayBlock == <<"treeList", 0>>

ListBlock(k) == <<"DLList", k>>

\* The blocks of a heap of ord buckets.
BlocksOf(ord) ==
    IF ord = 0 THEN {}
    ELSE {HeapBlock, ArrayBlock} \cup {ListBlock(k) : k \in 0..(ord - 1)}

\* The state createFibHeap leaves, for some initial capacity, when no
\* allocation fails.
Created ==
    \E ord \in 0..MaxInitOrd :
        LET h == createFibHeap(ord)
        IN  /\ initMaxTreeOrd = ord
            /\ newHeap = h.newHeap
            /\ key = h.key
            /\ elem = h.elem
            /\ _father = h._father
            /\ _firstSon = h._firstSon
            /\ _nextBro = h._nextBro
            /\ _prevBro = h._prevBro
            /\ _posInForest = h._posInForest
            /\ _sonsCnt = h._sonsCnt
            /\ _grief = h._grief
            /\ _forest = h._forest
            /\ min = h.min
            /\ _maxTreeOrd = h._maxTreeOrd
            /\ nodesCount = h.nodesCount
            /\ ret = h.ret
            /\ fault = h.fault
            /\ cuts = h.cuts
            /\ pc = "returned"
            /\ treeList = h.newHeap
            /\ loopI = ord
            /\ loopJ = 0
            /\ allocated = BlocksOf(ord)

Init ==
    /\ Created
    /\ op = "createFibHeap"
    /\ retKey = 0
    /\ calls = 0
    /\ phase = "free"
    /\ input = << >>
    /\ output = << >>

\* ------------------------------------------------------------ public calls
\* The key the returned node carries (0 when nothing was returned).
KeyOfRet(h) == IF h.ret = NULL THEN 0 ELSE h.key[h.ret]

\* The driver's limits: calls made and nodes held, by the heap explored.
CallLimit == IF phase = "grown" THEN MaxGrownCalls ELSE MaxCalls

NodeLimit == IF phase = "grown" THEN MaxGrownNodes ELSE MaxNodes

\* The driver makes another call: the process is alive (a null dereference
\* ends it), the heap is open to any call and the call budget is not spent.
CanCall ==
    /\ ~fault
    /\ phase \in {"free", "grown"}
    /\ calls < CallLimit

\* A call of fhInsert with key k; the element is the node's own slot number.
Insert(k) ==
    /\ CanCall
    /\ Cardinality(Live(H)) < NodeLimit
    /\ LET h == fhInsert(H, NewBlock(H), NewBlock(H), k)
       IN  SetHeap(h) /\ retKey' = KeyOfRet(h)
    /\ op' = "fhInsert"
    /\ calls' = calls + 1
    /\ UNCHANGED <<allocVars, initMaxTreeOrd, sortVars>>

\* A call of fhDecreaseKey on a node of the heap.
DecreaseKey(node, dec) ==
    /\ CanCall
    /\ LET h == fhDecreaseKey(H, node, dec)
       IN  SetHeap(h) /\ retKey' = KeyOfRet(h)
    /\ op' = "fhDecreaseKey"
    /\ calls' = calls + 1
    /\ UNCHANGED <<allocVars, initMaxTreeOrd, sortVars>>

\* A call of fhDeleteMin; the caller frees the node it gets back.
DeleteMin ==
    /\ CanCall
    /\ LET h == fhDeleteMin(H)
       IN  SetHeap(eraseFibTreeNode(h, h.ret)) /\ retKey' = KeyOfRet(h)
    /\ op' = "fhDeleteMin"
    /\ calls' = calls + 1
    /\ UNCHANGED <<allocVars, initMaxTreeOrd, sortVars>>

\* A call of fhDelete on a node of the heap; the caller frees the node it
\* gets back.
Delete(node) ==
    /\ CanCall
    /\ LET h == fhDelete(H, node)
       IN  SetHeap(eraseFibTreeNode(h, h.ret)) /\ retKey' = KeyOfRet(h)
    /\ op' = "fhDelete"
    /\ calls' = calls + 1
    /\ UNCHANGED <<allocVars, initMaxTreeOrd, sortVars>>

\* A call of fhIncreaseKey on a node of the heap.
IncreaseKey(node, inc) ==
    /\ CanCall
    /\ LET h == fhIncreaseKey(H, node, inc)
       IN  SetHeap(h) /\ retKey' = KeyOfRet(h)
    /\ op' = "fhIncreaseKey"
    /\ calls' = calls + 1
    /\ UNCHANGED <<allocVars, initMaxTreeOrd, sortVars>>

\* A call of fhFindMin: nothing is written, an element comes back.
FindMin ==
    /\ CanCall
    /\ ret' = fhFindMin(H)
    /\ retKey' = 0
    /\ op' = "fhFindMin"
    /\ calls' = calls + 1
    /\ cuts' = 0
    /\ UNCHANGED <<nodeVars, heapVars, fault, allocVars, initMaxTreeOrd,
                   sortVars>>

Next ==
    \/ \E k \in Keys : Insert(k)
    \/ FindMin
    \/ \E node \in Live(H), dec \in Keys : DecreaseKey(node, dec)
    \/ DeleteMin
    \/ \E node \in Live(H) : Delete(node)
    \/ \E node \in Live(H), inc \in Keys : IncreaseKey(node, inc)

Spec == Init /\ [][Next]_vars

\* How often k occurs in seq.
Count(seq, k) == Cardinality({i \in 1..Len(seq) : seq[i] = k})

\* --------------------------------------------------------------- heapsort
\* The driver of the heapsort scenario: fhInsert of up to MaxNodes keys, then
\* fhDeleteMin once per key inserted, recording the keys that come back.
SortInit ==
    /\ Created
    /\ newHeap # NULL
    /\ op = "createFibHeap"
    /\ retKey = 0
    /\ calls = 0
    /\ phase = "fill"
    /\ input = << >>
    /\ output = << >>

SortInsert(k) ==
    /\ ~fault
    /\ phase = "fill"
    /\ Len(input) < MaxNodes
    /\ LET h == fhInsert(H, NewBlock(H), NewBlock(H), k)
       IN  SetHeap(h) /\ retKey' = KeyOfRet(h)
    /\ op' = "fhInsert"
    /\ input' = Append(input, k)
    /\ UNCHANGED <<allocVars, initMaxTreeOrd, calls, phase, output>>

SortDeleteMin ==
    /\ ~fault
    /\ phase \in {"fill", "drain"}
    /\ Len(output) < Len(input)
    /\ LET h == fhDeleteMin(H)
           out == IF h.ret = NULL THEN output
                  ELSE Append(output, h.key[h.ret])
       IN  /\ SetHeap(eraseFibTreeNode(h, h.ret))
           /\ retKey' = KeyOfRet(h)
           /\ output' = out
           /\ phase' = IF Len(out) = Len(input) THEN "done" ELSE "drain"
    /\ op' = "fhDeleteMin"
    /\ UNCHANGED <<allocVars, initMaxTreeOrd, calls, input>>

SortNext ==
    \/ \E k \in Keys : SortInsert(k)
    \/ SortDeleteMin

SpecSort == SortInit /\ [][SortNext]_vars

\* ------------------------------------------------------------- grown heap
\* The driver of the grown heap: fhInsert of MaxGrownNodes keys in
\* nondecreasing order, one fhDeleteMin, which consolidates the other nodes
\* into one tree, and then any MaxGrownCalls public calls.
GrowInit ==
    /\ Created
    /\ newHeap # NULL
    /\ op = "createFibHeap"
    /\ retKey = 0
    /\ calls = 0
    /\ phase = "grow"
    /\ input = << >>
    /\ output = << >>

GrowInsert(k) ==
    /\ ~fault
    /\ phase = "grow"
    /\ Len(input) < MaxGrownNodes
    /\ Len(input) > 0 => k >= input[Len(input)]
    /\ k = 0 => Count(input, 0) < MaxGrownZeros
    /\ LET h == fhInsert(H, NewBlock(H), NewBlock(H), k)
       IN  SetHeap(h) /\ retKey' = KeyOfRet(h)
    /\ op' = "fhInsert"
    /\ input' = Append(input, k)
    /\ UNCHANGED <<allocVars, initMaxTreeOrd, calls, phase, output>>

GrowDeleteMin ==
    /\ ~fault
    /\ phase = "grow"
    /\ Len(input) = MaxGrownNodes
    /\ LET h == fhDeleteMin(H)
       IN  SetHeap(eraseFibTreeNode(h, h.ret)) /\ retKey' = KeyOfRet(h)
    /\ op' = "fhDeleteMin"
    /\ phase' = "grown"
    /\ UNCHANGED <<allocVars, initMaxTreeOrd, calls, input, output>>

GrowNext ==
    \/ \E k \in Keys : GrowInsert(k)
    \/ GrowDeleteMin
    \/ Next

SpecGrown == GrowInit /\ [][GrowNext]_vars

\* ------------------------------------------- construction, step by step
\* createFibHeap one statement at a time, every calloc and createDLList
\* free to fail.  Before the call returns a heap there are no fields: they
\* are blank, as after createFibHeap(0).
AllocInit ==
    /\ \E ord \in 0..MaxAllocOrd :
          /\ initMaxTreeOrd = ord
          /\ LET h == createFibHeap(0)
             IN  /\ newHeap = h.newHeap
                 /\ key = h.key
                 /\ elem = h.elem
                 /\ _father = h._father
                 /\ _firstSon = h._firstSon
                 /\ _nextBro = h._nextBro
                 /\ _prevBro = h._prevBro
                 /\ _posInForest = h._posInForest
                 /\ _sonsCnt = h._sonsCnt
                 /\ _grief = h._grief
                 /\ _forest = h._forest
                 /\ min = h.min
                 /\ _maxTreeOrd = h._maxTreeOrd
                 /\ nodesCount = h.nodesCount
                 /\ ret = h.ret
                 /\ fault = h.fault
                 /\ cuts = h.cuts
    /\ op = "createFibHeap"
    /\ retKey = 0
    /\ calls = 0
    /\ phase = "create"
    /\ input = << >>
    /\ output = << >>
    /\ pc = "testOrd"
    /\ treeList = NULL
    /\ loopI = 0
    /\ loopJ = 0
    /\ allocated = {}

\* What no statement of createFibHeap but the last writes.
AllocFrame ==
    UNCHANGED <<nodeVars, _forest, min, _maxTreeOrd, nodesCount, callVars,
                sortVars>>

\* if (initMaxTreeOrd == 0) return NULL;
TestOrd ==
    /\ pc = "testOrd"
    /\ pc' = IF initMaxTreeOrd = 0 THEN "returned" ELSE "callocHeap"
    /\ AllocFrame
    /\ UNCHANGED <<newHeap, treeList, loopI, loopJ, allocated>>

\* FibHeap *newHeap = calloc(1, sizeof(FibHeap));
CallocHeap ==
    /\ pc = "callocHeap"
    /\ \E ok \in BOOLEAN :
          /\ newHeap' = IF ok THEN 1 ELSE NULL
          /\ allocated' = IF ok THEN allocated \cup {HeapBlock} ELSE allocated
    /\ pc' = "callocTreeList"
    /\ AllocFrame
    /\ UNCHANGED <<treeList, loopI, loopJ>>

\* DLList **treeList = calloc(initMaxTreeOrd, sizeof(DLList *));
CallocTreeList ==
    /\ pc = "callocTreeList"
    /\ \E ok \in BOOLEAN :
          /\ treeList' = IF ok THEN 1 ELSE NULL
          /\ allocated' = IF ok THEN allocated \cup {ArrayBlock} ELSE allocated
    /\ pc' = "testHeap"
    /\ AllocFrame
    /\ UNCHANGED <<newHeap, loopI, loopJ>>

\* if (newHeap == NULL) return NULL;
TestHeap ==
    /\ pc = "testHeap"
    /\ pc' = IF newHeap = NULL THEN "returned" ELSE "testTreeList"
    /\ AllocFrame
    /\ UNCHANGED <<newHeap, treeList, loopI, loopJ, allocated>>

\* if (treeList == NULL) { free(newHeap); return NULL; }
\* After a return of NULL, newHeap is the value returned.
TestTreeList ==
    /\ pc = "testTreeList"
    /\ IF treeList = NULL
          THEN /\ allocated' = allocated \ {HeapBlock}
               /\ newHeap' = NULL
               /\ pc' = "returned"
          ELSE /\ pc' = "createList"
               /\ UNCHANGED <<newHeap, allocated>>
    /\ AllocFrame
    /\ UNCHANGED <<treeList, loopI, loopJ>>

\* One round of the outer loop: treeList[i] = createDLList(), and on NULL
\* the loop is left for the freeing loop, j = 0.
CreateList ==
    /\ pc = "createList"
    /\ loopI < initMaxTreeOrd
    /\ \E ok \in BOOLEAN :
          IF ok
          THEN /\ allocated' = allocated \cup {ListBlock(loopI)}
               /\ loopI' = loopI + 1
               /\ UNCHANGED <<pc, loopJ>>
          ELSE /\ pc' = "freeList"
               /\ loopJ' = 0
               /\ UNCHANGED <<loopI, allocated>>
    /\ AllocFrame
    /\ UNCHANGED <<newHeap, treeList>>

\* One round of the inner loop: free(treeList[j]).
FreeList ==
    /\ pc = "freeList"
    /\ loopJ < loopI
    /\ allocated' = allocated \ {ListBlock(loopJ)}
    /\ loopJ' = loopJ + 1
    /\ AllocFrame
    /\ UNCHANGED <<pc, newHeap, treeList, loopI>>

\* The inner loop is over: free(treeList); free(newHeap); return NULL;
FreeRest ==
    /\ pc = "freeList"
    /\ loopJ = loopI
    /\ allocated' = allocated \ {ArrayBlock, HeapBlock}
    /\ newHeap' = NULL
    /\ pc' = "returned"
    /\ AllocFrame
    /\ UNCHANGED <<treeList, loopI, loopJ>>

\* The outer loop is over: the fields are set and newHeap is returned.
Finish ==
    /\ pc = "createList"
    /\ loopI = initMaxTreeOrd
    /\ SetHeap(createFibHeap(initMaxTreeOrd))
    /\ pc' = "returned"
    /\ UNCHANGED <<initMaxTreeOrd, op, retKey, calls, sortVars>>
    /\ UNCHANGED <<treeList, loopI, loopJ, allocated>>

AllocNext ==
    \/ TestOrd
    \/ CallocHeap
    \/ CallocTreeList
    \/ TestHeap
    \/ TestTreeList
    \/ CreateList
    \/ FreeList
    \/ FreeRest
    \/ Finish

SpecAlloc == AllocInit /\ [][AllocNext]_vars

\* ------------------------------------------------------------- properties
\* The nodes in the heap now.
LiveNow == Live(H)

\* A step that is one public call.
IsCall == calls' = calls + 1

\* C1. Min-correctness: whenever the heap holds a node, min references a
\* node of the heap whose key is the smallest key in the heap.
C1_MinCorrectness ==
    LiveNow # {} =>
        /\ min \in LiveNow
        /\ \A n \in LiveNow : key[min] <= key[n]

\* C2. Heap order: every node of the heap that has a father has a key
\* greater than or equal to its father's key.
C2_HeapOrder ==
    \A n \in LiveNow : _father[n] # NULL => key[n] >= key[_father[n]]

\* C3. min is absent exactly when the heap holds no node, a present min is a
\* root on record, and fhFindMin reports not-found only on an empty heap.
C3_MinAbsentIffEmpty ==
    /\ (min = NULL) <=> (LiveNow = {})
    /\ min # NULL => (min \in Roots(H) /\ _father[min] = NULL)
    /\ (fhFindMin(H) = 0) => (LiveNow = {})

IsSorted(seq) == \A i \in 1..(Len(seq) - 1) : seq[i] <= seq[i + 1]

\* C4. Heapsort: inserting n keys and calling fhDeleteMin n times fails in no
\* call and returns the inserted keys, each as often as it was inserted, in
\* non-decreasing order.
C4_Heapsort ==
    /\ ~fault
    /\ phase = "done" =>
          /\ Len(output) = Len(input)
          /\ IsSorted(output)
          /\ \A k \in Keys : Count(output, k) = Count(input, k)

\* C5. fhDelete on a node of the heap returns that node with the key it had,
\* removes exactly that node and leaves every other node's key alone.
C5_DeleteExact ==
    [][\A node \in Nodes :
          (node \in Live(H) /\ Delete(node)) =>
              /\ ret' = node
              /\ retKey' = key[node]
              /\ Live(H)' = Live(H) \ {node}
              /\ \A m \in Live(H) \ {node} : key'[m] = key[m]]_vars

\* C6. fhIncreaseKey on a node of the heap returns that node; afterwards the
\* node is in the heap as a root without sons, its key is the old key plus
\* inc modulo 2^KeyBits, nodesCount is what it was and no other node's key
\* has changed.
C6_IncreaseKeyExact ==
    [][\A node \in Nodes, inc \in Keys :
          (node \in Live(H) /\ IncreaseKey(node, inc)) =>
              /\ ret' = node
              /\ node \in Live(H)'
              /\ _father'[node] = NULL
              /\ _firstSon'[node] = NULL
              /\ _sonsCnt'[node] = 0
              /\ key'[node] = (key[node] + inc) % KeyMod
              /\ nodesCount' = nodesCount
              /\ \A m \in Live(H) \ {node} : key'[m] = key[m]]_vars

\* C7. Mark invariant: no root of the heap carries a mark.
C7_NoMarkedRoot ==
    \A n \in LiveNow : _father[n] = NULL => _grief[n] = 0

\* The places <<bucket, position>> at which node n is on record.
Filed(n) ==
    {p \in (0..(_maxTreeOrd - 1)) \X (1..MaxSlots) :
        /\ p[2] <= Len(Bucket(H, p[1]))
        /\ Bucket(H, p[1])[p[2]] = n}

\* C8. Rank consistency: a node's _sonsCnt is the length of its child list,
\* whose members are distinct and all have the node as _father; a root is on
\* record exactly once, in the bucket of its _sonsCnt, and _posInForest names
\* that record; a node with a father is on record nowhere.
C8_RankConsistency ==
    \A n \in LiveNow :
        /\ _sonsCnt[n] = Len(Sons(H, n))
        /\ Cardinality(SonSet(H, n)) = Len(Sons(H, n))
        /\ \A c \in SonSet(H, n) : _father[c] = n
        /\ _father[n] = NULL =>
              /\ Cardinality(Filed(n)) = 1
              /\ \A p \in Filed(n) : p[1] = _sonsCnt[n]
              /\ _posInForest[n] = n
        /\ _father[n] # NULL => Filed(n) = {}

\* A cut below a father that is no root has set a mark: merges built a tree
\* of depth two and _cascadedDetach took it apart.
C8_Witness ==
    /\ op = "fhDecreaseKey"
    /\ \E n \in LiveNow : _grief[n] = 1 /\ _father[n] # NULL
    /\ \E n \in LiveNow : _father[n] = NULL /\ _sonsCnt[n] = 1

\* C9. nodesCount is the number of nodes in the heap after every call; a
\* call of fhInsert that returns a node adds one, a call of fhDeleteMin or
\* fhDelete that returns a node takes one away, and fhDecreaseKey and
\* fhIncreaseKey leave it alone.
C9_NodesCount ==
    [][IsCall =>
          /\ nodesCount' = Cardinality(Live(H)')
          /\ (op' = "fhInsert" /\ ret' # NULL) =>
                nodesCount' = nodesCount + 1
          /\ (op' \in {"fhDeleteMin", "fhDelete"} /\ ret' # NULL) =>
                nodesCount' = nodesCount - 1
          /\ op' \in {"fhDecreaseKey", "fhIncreaseKey"} =>
                nodesCount' = nodesCount]_vars

\* fhDelete has taken a node out of a heap of three.
C9_Witness ==
    /\ op = "fhDelete"
    /\ ret # NULL
    /\ nodesCount = 2
    /\ Cardinality(LiveNow) = 2

\* C10. Consolidation: after a call of fhDeleteMin or fhDelete that returns
\* a node no bucket holds more than one tree and nodesCount is one less.
C10_Consolidated ==
    [][(IsCall /\ op' \in {"fhDeleteMin", "fhDelete"} /\ ret' # NULL) =>
          /\ \A b \in 1..Len(_forest') : Len(_forest'[b]) <= 1
          /\ nodesCount' = nodesCount - 1]_vars

\* fhDeleteMin on five nodes has left one tree of four nodes in bucket 2.
C10_Witness ==
    /\ op = "fhDeleteMin"
    /\ ret # NULL
    /\ nodesCount = 4
    /\ _maxTreeOrd >= 3
    /\ Len(Bucket(H, 2)) = 1

\* s is the end of t.
IsSuffix(s, t) ==
    /\ Len(s) <= Len(t)
    /\ SubSeq(t, Len(t) - Len(s) + 1, Len(t)) = s

\* C11. fhDeleteMin on a heap that is not empty returns the node min
\* referenced, with _father, _firstSon, _nextBro, _prevBro and _posInForest
\* NULL, _grief 0 and _sonsCnt 0 and with its key and element as they were;
\* every son it had is in the heap afterwards and keeps what was below it
\* (consolidation may add sons in front of its own), and the nodes in the
\* heap are those of before without the node returned.
C11_DeleteMinReturnsMin ==
    [][(DeleteMin /\ isHeapEmpty(H) = 0) =>
          LET h == fhDeleteMin(H)
          IN  /\ ~h.fault
              /\ min # NULL
              /\ h.ret = min
              /\ h._father[min] = NULL
              /\ h._firstSon[min] = NULL
              /\ h._nextBro[min] = NULL
              /\ h._prevBro[min] = NULL
              /\ h._posInForest[min] = NULL
              /\ h._grief[min] = 0
              /\ h._sonsCnt[min] = 0
              /\ h.key[min] = key[min]
              /\ h.elem[min] = elem[min]
              /\ \A c \in SonSet(H, min) :
                    /\ c \in Live(h)
                    /\ IsSuffix(Sons(H, c), Sons(h, c))
                    /\ \A d \in Below(H, c, MaxSlots) \ {c} :
                          /\ h._father[d] = _father[d]
                          /\ Sons(h, d) = Sons(H, d)
              /\ Live(h) = Live(H) \ {min}
              /\ Live(H)' = Live(H) \ {min}]_vars

\* C12. No public call dereferences a null pointer: every call returns a
\* node or NULL.
C12_NoNullDereference == fault = FALSE

\* C13. createFibHeap(0) returns NULL; with no node in the heap fhFindMin
\* returns 0 and fhDeleteMin returns NULL, neither faults, and _forest, min,
\* nodesCount and _maxTreeOrd (and every node slot) stay as they were.
C13_EmptyBoundary ==
    [][/\ initMaxTreeOrd = 0 => newHeap = NULL
       /\ ((FindMin \/ DeleteMin) /\ LiveNow = {}) =>
             /\ ret' = NULL
             /\ fault' = FALSE
             /\ UNCHANGED <<_forest, min, nodesCount, _maxTreeOrd>>
             /\ UNCHANGED nodeVars]_vars

\* fhDeleteMin has come back empty-handed from a heap that nodes had passed
\* through (its forest has grown) and that holds none now.
C13_Witness ==
    /\ op = "fhDeleteMin"
    /\ ret = NULL
    /\ newHeap # NULL
    /\ nodesCount = 0
    /\ _maxTreeOrd >= 2

\* C14. Wraparound: fhDecreaseKey with dec above the node's key is carried
\* out like any other: it returns the node, whose key is then the old key
\* minus dec plus 2^KeyBits.
C14_Wraparound ==
    [][\A node \in Nodes, dec \in Keys :
          (/\ op' = "fhDecreaseKey"
           /\ node \in Live(H)
           /\ dec > key[node]
           /\ DecreaseKey(node, dec)) =>
              /\ ret' = node
              /\ fault' = FALSE
              /\ key'[node] = key[node] - dec + KeyMod
              /\ node \in Live(H)']_vars

\* fhDecreaseKey has returned a father whose key is the largest key while a
\* son of his has a smaller one: his key was 0 and wrapped.
C14_Witness ==
    /\ op = "fhDecreaseKey"
    /\ ret # NULL
    /\ key[ret] = UINT64_MAX
    /\ \E c \in SonSet(H, ret) : key[c] < key[ret]

\* The marked nodes with a father from a upwards, as far as they follow one
\* another.
RECURSIVE MarkedRun(_, _, _)
MarkedRun(h, a, fuel) ==
    IF fuel = 0 \/ a = NULL THEN {}
    ELSE IF h._father[a] = NULL \/ h._grief[a] # 1 THEN {}
    ELSE {a} \cup MarkedRun(h, h._father[a], fuel - 1)

\* The first node from a upwards that is a root or carries no mark.
RECURSIVE StopAt(_, _, _)
StopAt(h, a, fuel) ==
    IF fuel = 0 THEN a
    ELSE IF h._father[a] = NULL \/ h._grief[a] # 1 THEN a
    ELSE StopAt(h, h._father[a], fuel - 1)

\* The buckets in which node n is on record.
FiledIn(n) == {p[1] : p \in Filed(n)}

\* C15. Cascading cut: when fhDecreaseKey leaves a node with a father below
\* its father's key, the nodes that lose their father are that node and the
\* marked nodes with a father that follow one another from its father up;
\* each is then on record in the bucket of its own _sonsCnt, unmarked, and
\* its former father has one son less.  The node at which the run ends, if
\* it has a father, is marked and keeps him; if it is a root it is on record
\* one bucket lower and its mark is as it was.  No other node's father, mark
\* or bucket changes.
C15_CascadingCut ==
    [][\A node \in Nodes, dec \in Keys :
          (/\ op' = "fhDecreaseKey"
           /\ node \in Live(H)
           /\ _father[node] # NULL
           /\ (key[node] - dec) % KeyMod < key[_father[node]]
           /\ DecreaseKey(node, dec)) =>
              \A cutSet \in {{node} \cup MarkedRun(H, _father[node], MaxSlots)},
                 stop \in {StopAt(H, _father[node], MaxSlots)} :
                  /\ \A n \in Live(H) :
                        (_father[n] # NULL /\ _father'[n] = NULL) <=>
                            n \in cutSet
                  /\ \A n \in cutSet :
                        /\ FiledIn(n)' = {_sonsCnt'[n]}
                        /\ _grief'[n] = 0
                        /\ _sonsCnt'[_father[n]] = _sonsCnt[_father[n]] - 1
                  /\ stop \notin cutSet
                  /\ _father[stop] # NULL =>
                        /\ _grief[stop] = 0
                        /\ _grief'[stop] = 1
                        /\ _father'[stop] = _father[stop]
                        /\ FiledIn(stop)' = {}
                  /\ _father[stop] = NULL =>
                        /\ FiledIn(stop) = {_sonsCnt[stop]}
                        /\ FiledIn(stop)' = {_sonsCnt[stop] - 1}
                        /\ _grief'[stop] = _grief[stop]
                        /\ _father'[stop] = NULL
                  /\ \A n \in Live(H) \ (cutSet \cup {stop}) :
                        /\ _father'[n] = _father[n]
                        /\ _grief'[n] = _grief[n]
                        /\ FiledIn(n)' = FiledIn(n)
                        /\ _sonsCnt'[n] = _sonsCnt[n]
                  /\ Live(H)' = Live(H)]_vars

\* fhDecreaseKey has cut a node and at least one marked ancestor with it.
C15_Witness ==
    /\ op = "fhDecreaseKey"
    /\ cuts >= 2
    /\ ret # NULL
    /\ _father[ret] = NULL

\* C16. fhDecreaseKey without a cut: when the node is a root, or its new key
\* is not below its father's, no link, _sonsCnt, mark, bucket or nodesCount
\* changes and no key but the node's; min moves to the node exactly when the
\* node is a root and its new key is strictly below the key of the node min
\* references.  Decreasing the minimum by no more than its key leaves it the
\* minimum, with its key reduced by that amount.
C16_DecreaseKeyNoCut ==
    [][\A node \in Nodes, dec \in Keys :
          (/\ op' = "fhDecreaseKey"
           /\ node \in Live(H)
           /\ \/ _father[node] = NULL
              \/ (key[node] - dec) % KeyMod >= key[_father[node]]
           /\ DecreaseKey(node, dec)) =>
              /\ UNCHANGED <<_father, _firstSon, _nextBro, _prevBro,
                             _posInForest, _sonsCnt, _grief, elem>>
              /\ UNCHANGED <<_forest, _maxTreeOrd, nodesCount>>
              /\ key' = [key EXCEPT ![node] = (key[node] - dec) % KeyMod]
              /\ min' = IF /\ _father[node] = NULL
                           /\ min # NULL
                           /\ (key[node] - dec) % KeyMod < key[min]
                        THEN node ELSE min
              /\ (node = min /\ dec <= key[node]) =>
                    /\ min' = node
                    /\ key'[node] = key[node] - dec]_vars

\* What C17 says of one merge in bucket r, from heap h to heap g: the trees
\* merged are the first and the last of the bucket; the root with the
\* strictly larger key is the first son of the other, the first one staying
\* on top on equal keys; the father has r + 1 sons and is filed last in
\* bucket r + 1, which is new when r + 1 was _maxTreeOrd.
MergeRule(h, r, g) ==
    LET a == Bucket(h, r)[1]
        b == Bucket(h, r)[Len(Bucket(h, r))]
        top == IF h.key[a] > h.key[b] THEN b ELSE a
        sub == IF h.key[a] > h.key[b] THEN a ELSE b
    IN  /\ a # b
        /\ g._father[sub] = top
        /\ g._father[top] = NULL
        /\ g._firstSon[top] = sub
        /\ g._nextBro[sub] = h._firstSon[top]
        /\ g._sonsCnt[top] = r + 1
        /\ g._sonsCnt[sub] = h._sonsCnt[sub]
        /\ g.key = h.key
        /\ g._maxTreeOrd =
              IF r + 1 = h._maxTreeOrd THEN h._maxTreeOrd + 1
              ELSE h._maxTreeOrd
        /\ Len(g._forest) = g._maxTreeOrd
        /\ Bucket(g, r + 1) =
              Append(IF r + 1 < h._maxTreeOrd THEN Bucket(h, r + 1) ELSE << >>,
                     top)
        /\ Bucket(g, r) = SubSeq(Bucket(h, r), 2, Len(Bucket(h, r)) - 1)
        /\ \A i \in 0..(h._maxTreeOrd - 1) :
              i \notin {r, r + 1} => Bucket(g, i) = Bucket(h, i)

\* Every merge _rebuild makes from bucket i of h on follows the rule.
RECURSIVE MergesFollowRule(_, _)
MergesFollowRule(h, i) ==
    IF i >= h._maxTreeOrd THEN TRUE
    ELSE IF recsCount(Bucket(h, i)) > 1
         THEN \A g \in {MergeStep(h, i)} :
                  MergeRule(h, i, g) /\ MergesFollowRule(g, i)
         ELSE MergesFollowRule(h, i + 1)

\* The merges of the _rebuild that fhDeleteMin runs on h.
DeleteMinMerges(h) ==
    (isHeapEmpty(h) = 0 /\ h.min # NULL) => MergesFollowRule(Uprooted(h), 0)

\* C17. Consolidation merge rule: every merge made by the _rebuild of a
\* call of fhDeleteMin, or of fhDelete or fhIncreaseKey on any node, pairs
\* the first and the last tree of a bucket r; the root with the strictly
\* larger key becomes the first son of the other and on equal keys the first
\* tree's root stays on top; the father then has r + 1 sons and is filed in
\* bucket r + 1, the forest growing by one bucket when r + 1 is _maxTreeOrd.
C17_MergeRule ==
    [][/\ op' = "fhDeleteMin" => DeleteMinMerges(H)
       /\ op' \in {"fhDelete", "fhIncreaseKey"} =>
             \A node \in Live(H) :
                 \A h \in {fhDecreaseKey(H, node, key[node])} :
                     DeleteMinMerges(h)]_vars

\* fhDeleteMin has merged trees up to rank 2 in a forest created with one
\* bucket, and a root with two sons has a son with its own key: a tie.
C17_Witness ==
    /\ op = "fhDeleteMin"
    /\ ret # NULL
    /\ initMaxTreeOrd = 1
    /\ _maxTreeOrd = 3
    /\ \E n \in LiveNow :
          /\ _father[n] = NULL
          /\ _sonsCnt[n] = 2
          /\ \E c \in SonSet(H, n) : key[c] = key[n]

\* C18. fhInsert frame and tie rule: a call of fhInsert with key k that
\* returns a node has put that node, with key k, no sons and no mark, last
\* in bucket 0 and raised nodesCount by one; no node that was in the heap
\* has changed in any field, no other bucket has changed; min is the new
\* node if the heap was empty or k is strictly below the key of the node min
\* referenced, and is what it was otherwise.
C18_InsertFrame ==
    [][\A k \in Keys :
          (op' = "fhInsert" /\ Insert(k) /\ ret' # NULL) =>
              \A n \in {NewBlock(H)} :
                  /\ ret' = n
                  /\ _forest' = [_forest EXCEPT ![1] = Append(@, n)]
                  /\ _maxTreeOrd' = _maxTreeOrd
                  /\ key'[n] = k
                  /\ _father'[n] = NULL
                  /\ _firstSon'[n] = NULL
                  /\ _nextBro'[n] = NULL
                  /\ _prevBro'[n] = NULL
                  /\ _sonsCnt'[n] = 0
                  /\ _grief'[n] = 0
                  /\ nodesCount' = nodesCount + 1
                  /\ Live(H)' = Live(H) \cup {n}
                  /\ \A m \in Live(H) :
                        /\ key'[m] = key[m]
                        /\ elem'[m] = elem[m]
                        /\ _father'[m] = _father[m]
                        /\ _firstSon'[m] = _firstSon[m]
                        /\ _nextBro'[m] = _nextBro[m]
                        /\ _prevBro'[m] = _prevBro[m]
                        /\ _posInForest'[m] = _posInForest[m]
                        /\ _sonsCnt'[m] = _sonsCnt[m]
                        /\ _grief'[m] = _grief[m]
                  /\ min' = IF \/ Live(H) = {}
                               \/ (min # NULL /\ k < key[min])
                            THEN n ELSE min]_vars

\* C19. Forest bounds: no call lowers _maxTreeOrd, which is the number of
\* buckets and at least 1 on a heap that was created; after every call every
\* node in the heap has a _sonsCnt strictly below _maxTreeOrd, so the buckets
\* _forest[_sonsCnt] and _forest[_sonsCnt + 1] that the next call's insert,
\* cut, re-filing or merge reads exist.
C19_ForestBounds ==
    [][/\ _maxTreeOrd' >= _maxTreeOrd
       /\ Len(_forest') = _maxTreeOrd'
       /\ newHeap' # NULL => _maxTreeOrd' >= 1
       /\ \A n \in Live(H)' : _sonsCnt'[n] < _maxTreeOrd']_vars

\* A heap created with one bucket has three, fhDecreaseKey has just cut a
\* node, and a node with two sons sits as high as the forest reaches.
C19_Witness ==
    /\ op = "fhDecreaseKey"
    /\ cuts >= 1
    /\ initMaxTreeOrd = 1
    /\ _maxTreeOrd = 3
    /\ \E n \in LiveNow : _sonsCnt[n] = _maxTreeOrd - 1

\* The Fibonacci sequence, F(1) = F(2) = 1.
RECURSIVE F(_)
F(k) == IF k <= 2 THEN 1 ELSE F(k - 1) + F(k - 2)

\* The number of nodes of the subtree rooted at n.
SubtreeSize(n) == Cardinality(Below(H, n, MaxSlots))

\* C20. Fibonacci size bound: every node in the heap with k sons is the root
\* of a subtree of at least F(k + 2) nodes, and so F(k + 2) never exceeds
\* nodesCount.
C20_FibonacciBound ==
    \A n \in LiveNow :
        /\ SubtreeSize(n) >= F(_sonsCnt[n] + 2)
        /\ F(_sonsCnt[n] + 2) <= nodesCount

\* Cuts have thinned a tree of rank 3 down to the five nodes the bound
\* allows, one of them marked.
C20_Witness ==
    /\ op = "fhDecreaseKey"
    /\ \E n \in LiveNow :
          /\ _sonsCnt[n] = 3
          /\ SubtreeSize(n) = 5
          /\ \E c \in SonSet(H, n) : _grief[c] = 1

\* createFibHeap has returned NULL after an allocation of its own failed (a
\* capacity of 0 fails before anything is allocated).
CreateFailed ==
    /\ pc = "returned"
    /\ newHeap = NULL
    /\ initMaxTreeOrd # 0

\* C21. All-or-nothing construction: when createFibHeap returns failure
\* because one of its allocation steps failed (the heap record, the bucket
\* array or any bucket list), no block the call allocated is outstanding.
C21_AllOrNothing == CreateFailed => allocated = {}

=============================================================================
